---- MODULE Spec2Model ----
(***************************************************************************)
(* State-machine model of libpyvinyl's BaseCalculator                      *)
(* (src/libpyvinyl/BaseCalculator.py): the validated field setters, the    *)
(* constructor with its output construction, the derivation operator       *)
(* __call__, dump / __load_from_dump and the two abstract hooks.           *)
(*                                                                         *)
(* Python objects with identity (CalculatorParameters, DataCollection)     *)
(* live in a heap and are held by reference; strings, numbers, None,       *)
(* classes, dataset instances and lists are values.  An exception is the   *)
(* "err" component of the result of an operation.                          *)
(***************************************************************************)
EXTENDS Integers, Sequences, FiniteSets, TLC

\* Bounds of the model.
MaxObj == 7
MaxSteps == 2

VARIABLES
    debug,   \* Python's __debug__: TRUE unless the interpreter runs with -O
    calcs,   \* the two calculator variables of the client, "c" and "c2"
    heap,    \* the objects with identity, by reference number
    files,   \* the file system: path -> content
    err,     \* the exception the last operation raised, "none" if it returned
    last,    \* the last operation and its arguments
    steps    \* number of operations performed after the first construction

vars == <<debug, calcs, heap, files, err, last, steps>>

----------------------------------------------------------------------------
\* Python values.

StrV(s) == [t |-> "str", s |-> s]
IntV(i) == [t |-> "int", i |-> i]
NoneV == [t |-> "None"]
\* a class derived from BaseData (a dataset type descriptor)
ClassV(c) == [t |-> "class", c |-> c]
\* an instance of class c, a class derived from BaseData, with key k
DataV(c, k) == [t |-> "data", c |-> c, k |-> k]
ListV(l) == [t |-> "list", l |-> l]
\* a reference to the heap object number id
Ref(id) == [t |-> "ref", id |-> id]

\* Heap objects.
ParamsObj(n) == [kind |-> "CalculatorParameters", plus_times |-> n]
CollObj(items) == [kind |-> "DataCollection", items |-> items]

IsStr(v) == v.t = "str"
IsList(v) == v.t = "list"
IsNone(v) == v.t = "None"
\* isinstance(value, BaseData): an instance of BaseData or of a class derived from it
IsBaseData(v) == v.t = "data"
\* type(item) is BaseData: an instance of exactly BaseData, no derived class
TypeIsBaseData(v) == v.t = "data" /\ v.c = "BaseData"
IsDataCollection(h, v) == v.t = "ref" /\ h[v.id].kind = "DataCollection"
IsCalculatorParameters(h, v) == v.t = "ref" /\ h[v.id].kind = "CalculatorParameters"

----------------------------------------------------------------------------
\* A machine m = [err, obj, heap, debug] is one calculator object under an
\* operation: obj holds the private attributes, err the exception raised.

PrivateNames == {"name", "instrument_base_dir", "calculator_base_dir", "input",
                 "output_keys", "output_data_types", "output_filenames",
                 "parameters"}

Unset == [t |-> "unset"]

\* __init__, "Initialize the variables": every private attribute is None, the
\* output attribute does not exist yet, the instance dictionary has no other entry.
BlankObj ==
    [name |-> NoneV, instrument_base_dir |-> NoneV, calculator_base_dir |-> NoneV,
     input |-> NoneV, output_keys |-> NoneV, output_data_types |-> NoneV,
     output_filenames |-> NoneV, parameters |-> NoneV, output |-> Unset,
     shadowed |-> [k \in PrivateNames \cup {"output"} |-> Unset]]

Raise(m, e) == [m EXCEPT !.err = e]

Alloc(m, o) == [m EXCEPT !.heap = Append(m.heap, o)]

\* name.setter
set_name(m, value) ==
    IF IsStr(value) THEN [m EXCEPT !.obj.name = value]
    ELSE Raise(m, "TypeError")

RECURSIVE set_parameters(_, _)

\* init_parameters with the assignment "times.value = 1" lost.
init_parameters_zero(m) ==
    LET m1 == Alloc(m, ParamsObj(0))
    IN  set_parameters(m1, Ref(Len(m1.heap)))

\* init_parameters, the base implementation: a CalculatorParameters with the one
\* parameter plus_times = 1, assigned through the parameters setter.
init_parameters(m) ==
    LET m1 == Alloc(m, ParamsObj(1))
    IN  set_parameters(m1, Ref(Len(m1.heap)))

\* set_parameters.  The concrete calculator of the model implements
\* init_parameters by the base implementation.
set_parameters(m, value) ==
    IF IsCalculatorParameters(m.heap, value) THEN [m EXCEPT !.obj.parameters = value]
    ELSE IF IsNone(value) THEN init_parameters(m)
    ELSE Raise(m, "TypeError")

\* set_instrument_base_dir
set_instrument_base_dir(m, value) ==
    IF IsStr(value) THEN [m EXCEPT !.obj.instrument_base_dir = ListV(<<value>>)]
    ELSE Raise(m, "TypeError")

\* set_calculator_base_dir
set_calculator_base_dir(m, value) ==
    IF IsBaseData(value) THEN [m EXCEPT !.obj.calculator_base_dir = ListV(<<value>>)]
    ELSE Raise(m, "TypeError")

\* set_input
set_input(m, value) ==
    IF IsDataCollection(m.heap, value) THEN [m EXCEPT !.obj.input = value]
    ELSE IF IsList(value) THEN
        LET m1 == Alloc(m, CollObj(value.l))
        IN  [m1 EXCEPT !.obj.input = Ref(Len(m1.heap))]
    ELSE IF IsBaseData(value) THEN
        LET m1 == Alloc(m, CollObj(<<value>>))
        IN  [m1 EXCEPT !.obj.input = Ref(Len(m1.heap))]
    ELSE Raise(m, "TypeError")

\* set_output_keys: the assert statements run only when __debug__ holds
set_output_keys(m, value) ==
    IF IsList(value) THEN
        IF m.debug /\ \E i \in 1..Len(value.l) : ~IsStr(value.l[i])
        THEN Raise(m, "AssertionError")
        ELSE [m EXCEPT !.obj.output_keys = value]
    ELSE IF IsStr(value) THEN [m EXCEPT !.obj.output_keys = ListV(<<value>>)]
    ELSE Raise(m, "TypeError")

\* set_output_data_types
set_output_data_types(m, value) ==
    IF IsList(value) THEN
        IF m.debug /\ \E i \in 1..Len(value.l) : ~TypeIsBaseData(value.l[i])
        THEN Raise(m, "AssertionError")
        ELSE [m EXCEPT !.obj.output_data_types = value]
    ELSE IF IsBaseData(value) THEN [m EXCEPT !.obj.output_data_types = ListV(<<value>>)]
    ELSE Raise(m, "TypeError")

\* The asserted expression of set_output_filenames, "type(item) is str or
\* type(None)": the right operand is the class NoneType, which is true.
FilenameItemOk(item) == IsStr(item) \/ TRUE

\* set_output_filenames
set_output_filenames(m, value) ==
    IF IsList(value) THEN
        IF m.debug /\ \E i \in 1..Len(value.l) : ~FilenameItemOk(value.l[i])
        THEN Raise(m, "AssertionError")
        ELSE [m EXCEPT !.obj.output_filenames = value]
    ELSE IF IsBaseData(value) \/ IsNone(value)
        THEN [m EXCEPT !.obj.output_filenames = ListV(<<value>>)]
    ELSE Raise(m, "TypeError")

\* self.output_data_types[i](key): calling a class makes an instance of it with
\* that key; a value that is no class is not callable.
CallType(ty, key) ==
    IF ty.t = "class" THEN [err |-> "none", val |-> DataV(ty.c, key)]
    ELSE [err |-> "TypeError", val |-> NoneV]

RECURSIVE BuildOutput(_, _, _, _)
\* The loop of __init_output from index i on: items is the collection so far.
BuildOutput(keys, types, i, items) ==
    IF i > Len(keys) THEN [err |-> "none", items |-> items]
    ELSE IF i > Len(types) THEN [err |-> "IndexError", items |-> items]
    ELSE LET r == CallType(types[i], keys[i])
         IN  IF r.err # "none" THEN [err |-> r.err, items |-> items]
             ELSE BuildOutput(keys, types, i + 1, Append(items, r.val))

\* __init_output
init_output(m) ==
    LET r == BuildOutput(m.obj.output_keys.l, m.obj.output_data_types.l, 1, <<>>)
    IN  IF r.err # "none" THEN Raise(m, r.err)
        ELSE LET m1 == Alloc(m, CollObj(r.items))
             IN  [m1 EXCEPT !.obj.output = Ref(Len(m1.heap))]

\* The constructor arguments, with the defaults of the signature.
DefaultArgs ==
    [output_filenames |-> NoneV, instrument_base_dir |-> StrV("./"),
     calculator_base_dir |-> StrV("BaseCalculator"), parameters |-> NoneV,
     dumpfile |-> NoneV]

\* The i-th statement of __init__ after the attributes are initialized: the
\* setters in the order of the source, then __init_output.  The dumpfile
\* argument is not read.
CtorStatement(m, i, a) ==
    CASE i = 1 -> set_name(m, a.name)
      [] i = 2 -> set_input(m, a.input)
      [] i = 3 -> set_output_keys(m, a.output_keys)
      [] i = 4 -> set_output_data_types(m, a.output_data_types)
      [] i = 5 -> set_output_filenames(m, a.output_filenames)
      [] i = 6 -> set_instrument_base_dir(m, a.instrument_base_dir)
      [] i = 7 -> set_calculator_base_dir(m, a.calculator_base_dir)
      [] i = 8 -> set_parameters(m, a.parameters)
      [] i = 9 -> init_output(m)

RECURSIVE RunCtor(_, _, _)
\* The statements of __init__ from the i-th on; an exception ends them.
RunCtor(m, i, a) ==
    IF m.err # "none" \/ i > 9 THEN m
    ELSE RunCtor(CtorStatement(m, i, a), i + 1, a)

\* __init__
construct(h, dbg, a) ==
    RunCtor([err |-> "none", obj |-> BlankObj, heap |-> h, debug |-> dbg], 1, a)

----------------------------------------------------------------------------
\* The client's side of a call.

NoCalc == [t |-> "absent"]

\* An argument the client creates for the call: a new CalculatorParameters
\* (with plus_times set to 2) or a new DataCollection of one dataset.
NewParams == [t |-> "new", kind |-> "CalculatorParameters"]
NewColl == [t |-> "new", kind |-> "DataCollection"]

DatasetA == DataV("TypeA", StrV("in"))

\* The heap and the value of an argument once the client has created it.
Resolve(h, v) ==
    IF v.t # "new" THEN [heap |-> h, val |-> v]
    ELSE IF v.kind = "CalculatorParameters"
        THEN [heap |-> Append(h, ParamsObj(2)), val |-> Ref(Len(h) + 1)]
    ELSE [heap |-> Append(h, CollObj(<<DatasetA>>)), val |-> Ref(Len(h) + 1)]

Exists(o) == calcs[o] # NoCalc

\* The paths of the model: two mkstemp names (prefix "r", the last character of
\* the concrete class name PlusCalculator, and the suffix "_dump.dill") and
\* three paths the client names.
TmpPaths == {"r1_dump.dill", "r2_dump.dill"}
Paths == TmpPaths \cup {"calc.dill", "missing.dill", "garbage.dill"}
Missing == [kind |-> "missing"]
Garbage == [kind |-> "garbage"]
InitFiles == [p \in Paths |-> IF p = "garbage.dill" THEN Garbage ELSE Missing]

\* The values the constructor is called with.
NameArgs == {StrV("calc1"), IntV(123)}
InputArgs == {ListV(<<DatasetA>>), IntV(7)}
KeysArgs == {StrV("out1"), ListV(<<StrV("out1"), StrV("out2")>>),
             ListV(<<IntV(1), IntV(2)>>), ListV(<<>>)}
TypesArgs == {ClassV("TypeX"), ListV(<<ClassV("TypeX"), ClassV("TypeY")>>),
              ListV(<<StrV("not-a-type")>>), DataV("TypeX", StrV("d")), ListV(<<>>)}
FilenamesArgs == {NoneV, StrV("out.h5"), ListV(<<StrV("a.h5"), NoneV>>)}
InstrumentDirArgs == {StrV("./")}
CalculatorDirArgs == {StrV("BaseCalculator"), DataV("TypeX", StrV("dir"))}
ParametersArgs == {NoneV, NewParams, IntV(5)}

CtorArgs ==
    [name : NameArgs, input : InputArgs, output_keys : KeysArgs,
     output_data_types : TypesArgs, output_filenames : FilenamesArgs,
     instrument_base_dir : InstrumentDirArgs,
     calculator_base_dir : CalculatorDirArgs, parameters : ParametersArgs,
     dumpfile : {NoneV}]

\* target = Calculator(**a)
Construct(target, a) ==
    /\ ~Exists(target)
    /\ steps < MaxSteps
    /\ \E pre \in {Resolve(heap, a.parameters)} :
       \E args \in {[a EXCEPT !.parameters = pre.val]} :
       \E r \in {construct(pre.heap, debug, args)} :
           /\ Len(r.heap) <= MaxObj
           /\ calcs' = IF r.err = "none" THEN [calcs EXCEPT ![target] = r.obj] ELSE calcs
           /\ heap' = IF r.err = "none" THEN r.heap ELSE pre.heap
           /\ err' = r.err
           /\ last' = [op |-> "construct", target |-> target, args |-> args]
    /\ steps' = steps + 1
    /\ UNCHANGED <<debug, files>>

----------------------------------------------------------------------------
\* Object graphs: copy.deepcopy, dill.dump and dill.load.

FieldSeq == <<"name", "instrument_base_dir", "calculator_base_dir", "input",
              "output_keys", "output_data_types", "output_filenames",
              "parameters", "output">>

\* The values an object holds, in the order of its instance dictionary.
SlotVals(obj) ==
    [i \in 1..Len(FieldSeq) |-> obj[FieldSeq[i]]] \o
    [i \in 1..Len(FieldSeq) |-> obj.shadowed[FieldSeq[i]]]

RECURSIVE FirstRefs(_, _, _)
\* The references among vals[i..], each once, in the order they are first met.
FirstRefs(vals, i, acc) ==
    IF i > Len(vals) THEN acc
    ELSE IF vals[i].t = "ref" /\ ~\E k \in 1..Len(acc) : acc[k] = vals[i].id
        THEN FirstRefs(vals, i + 1, Append(acc, vals[i].id))
    ELSE FirstRefs(vals, i + 1, acc)

\* The objects a calculator reaches.
Reach(obj) == LET ids == FirstRefs(SlotVals(obj), 1, <<>>)
              IN  {ids[k] : k \in 1..Len(ids)}

\* The position of id in the sequence ids.
IndexOf(ids, id) == CHOOSE k \in 1..Len(ids) : ids[k] = id

\* obj with every reference id replaced by the reference base + its position in ids.
Renumber(obj, ids, base) ==
    LET F(v) == IF v.t = "ref" THEN Ref(base + IndexOf(ids, v.id)) ELSE v
    IN  [name |-> F(obj.name),
         instrument_base_dir |-> F(obj.instrument_base_dir),
         calculator_base_dir |-> F(obj.calculator_base_dir),
         input |-> F(obj.input),
         output_keys |-> F(obj.output_keys),
         output_data_types |-> F(obj.output_data_types),
         output_filenames |-> F(obj.output_filenames),
         parameters |-> F(obj.parameters),
         output |-> F(obj.output),
         shadowed |-> [k \in DOMAIN obj.shadowed |-> F(obj.shadowed[k])]]

\* dill.dump(self, file_handle): the object graph as a blob, the objects it
\* reaches numbered from 1 in the order they are met; an object met twice is
\* written once.
dill_dump(obj, h) ==
    LET ids == FirstRefs(SlotVals(obj), 1, <<>>)
    IN  [obj |-> Renumber(obj, ids, 0), objs |-> [k \in 1..Len(ids) |-> h[ids[k]]]]

\* copy.copy in the place of copy.deepcopy: the attributes are shared.
shallowcopy(obj, h) == [obj |-> obj, heap |-> h]

\* copy.deepcopy(self): new objects, appended to the heap, for all that self
\* reaches, and a calculator that refers to them.
deepcopy(obj, h) ==
    LET ids == FirstRefs(SlotVals(obj), 1, <<>>)
    IN  [obj |-> Renumber(obj, ids, Len(h)),
         heap |-> h \o [k \in 1..Len(ids) |-> h[ids[k]]]]

\* The keyword arguments of __call__ the model draws: at most one key, either
\* the name of a property or the mangled name of the private attribute behind it.
NoOverride == [key |-> "none", val |-> NoneV]
PropertyKeys == {"name", "parameters"}
MangledKeys == {"_BaseCalculator__name", "_BaseCalculator__parameters",
                "_BaseCalculator__input"}
AttrOf(key) ==
    CASE key = "_BaseCalculator__name" -> "name"
      [] key = "_BaseCalculator__parameters" -> "parameters"
      [] key = "_BaseCalculator__input" -> "input"

\* new.__dict__.update(kwargs): a mangled key replaces the private attribute;
\* the name of a property becomes an entry of the instance dictionary that the
\* property, a data descriptor of the class, hides from attribute access.
dict_update(obj, ov) ==
    IF ov.key = "none" THEN obj
    ELSE IF ov.key \in MangledKeys THEN [obj EXCEPT ![AttrOf(ov.key)] = ov.val]
    ELSE [obj EXCEPT !.shadowed[ov.key] = ov.val]

\* __call__(parameters, **kwargs)
call(m, parameters, ov) ==
    LET cp == deepcopy(m.obj, m.heap)
        new == [m EXCEPT !.obj = dict_update(cp.obj, ov), !.heap = cp.heap]
    IN  IF ~IsNone(parameters) THEN set_parameters(new, parameters) ELSE new

\* backengine, the base implementation
backengine(m) == Raise(m, "NotImplementedError")

\* The property getters: each returns the private attribute.
Get(obj, field) == obj[field]

----------------------------------------------------------------------------
\* Operations on a constructed calculator.

Machine(o, h) == [err |-> "none", obj |-> calcs[o], heap |-> h, debug |-> debug]

\* The end of a call on calculator o that gave the machine r: o is the object
\* as the call left it, err the exception raised.
Commit(o, l, r) ==
    /\ steps < MaxSteps
    /\ Len(r.heap) <= MaxObj
    /\ calcs' = [calcs EXCEPT ![o] = r.obj]
    /\ heap' = r.heap
    /\ err' = r.err
    /\ last' = l
    /\ steps' = steps + 1
    /\ UNCHANGED <<debug, files>>

\* o.set_name(v)
SetName(o, v) ==
    /\ Exists(o)
    /\ \E pre \in {Resolve(heap, v)} : \E r \in {set_name(Machine(o, pre.heap), pre.val)} :
           Commit(o, [op |-> "set_name", target |-> o, value |-> pre.val], r)

\* o.set_input(v)
SetInput(o, v) ==
    /\ Exists(o)
    /\ \E pre \in {Resolve(heap, v)} : \E r \in {set_input(Machine(o, pre.heap), pre.val)} :
           Commit(o, [op |-> "set_input", target |-> o, value |-> pre.val], r)

\* o.set_output_keys(v)
SetOutputKeys(o, v) ==
    /\ Exists(o)
    /\ \E pre \in {Resolve(heap, v)} : \E r \in {set_output_keys(Machine(o, pre.heap), pre.val)} :
           Commit(o, [op |-> "set_output_keys", target |-> o, value |-> pre.val], r)

\* o.set_output_data_types(v)
SetOutputDataTypes(o, v) ==
    /\ Exists(o)
    /\ \E pre \in {Resolve(heap, v)} : \E r \in {set_output_data_types(Machine(o, pre.heap), pre.val)} :
           Commit(o, [op |-> "set_output_data_types", target |-> o, value |-> pre.val], r)

\* o.set_output_filenames(v)
SetOutputFilenames(o, v) ==
    /\ Exists(o)
    /\ \E pre \in {Resolve(heap, v)} : \E r \in {set_output_filenames(Machine(o, pre.heap), pre.val)} :
           Commit(o, [op |-> "set_output_filenames", target |-> o, value |-> pre.val], r)

\* o.set_instrument_base_dir(v)
SetInstrumentBaseDir(o, v) ==
    /\ Exists(o)
    /\ \E pre \in {Resolve(heap, v)} : \E r \in {set_instrument_base_dir(Machine(o, pre.heap), pre.val)} :
           Commit(o, [op |-> "set_instrument_base_dir", target |-> o, value |-> pre.val], r)

\* o.set_calculator_base_dir(v)
SetCalculatorBaseDir(o, v) ==
    /\ Exists(o)
    /\ \E pre \in {Resolve(heap, v)} : \E r \in {set_calculator_base_dir(Machine(o, pre.heap), pre.val)} :
           Commit(o, [op |-> "set_calculator_base_dir", target |-> o, value |-> pre.val], r)

\* o.set_parameters(v)
SetParameters(o, v) ==
    /\ Exists(o)
    /\ \E pre \in {Resolve(heap, v)} : \E r \in {set_parameters(Machine(o, pre.heap), pre.val)} :
           Commit(o, [op |-> "set_parameters", target |-> o, value |-> pre.val], r)

\* The base implementation of init_parameters, reached on o.
InitParameters(o) ==
    /\ Exists(o)
    /\ \E r \in {init_parameters(Machine(o, heap))} :
           Commit(o, [op |-> "init_parameters", target |-> o], r)

\* The base implementation of backengine, reached on o.
Backengine(o) ==
    /\ Exists(o)
    /\ \E r \in {backengine(Machine(o, heap))} :
           Commit(o, [op |-> "backengine", target |-> o], r)

\* c2 = c(parameters, **ov): the client derives one clone.
Derive(parameters, ov) ==
    /\ Exists("c")
    /\ steps < MaxSteps
    /\ ~Exists("c2")
    /\ \E pre \in {Resolve(heap, parameters)} :
       \E r \in {call(Machine("c", pre.heap), pre.val, ov)} :
           /\ Len(r.heap) <= MaxObj
           /\ calcs' = IF r.err = "none" THEN [calcs EXCEPT !["c2"] = r.obj] ELSE calcs
           /\ heap' = IF r.err = "none" THEN r.heap ELSE pre.heap
           /\ err' = r.err
           /\ last' = [op |-> "call", target |-> "c2", parameters |-> pre.val,
                       ov |-> ov]
    /\ steps' = steps + 1
    /\ UNCHANGED <<debug, files>>

\* The client changes, in place, the parameter set o.parameters refers to.
MutateParameters(o) ==
    /\ Exists(o)
    /\ steps < MaxSteps
    /\ IsCalculatorParameters(heap, Get(calcs[o], "parameters"))
    /\ heap' = [heap EXCEPT ![Get(calcs[o], "parameters").id].plus_times = (@ + 1) % 4]
    /\ err' = "none"
    /\ last' = [op |-> "mutate", target |-> o, field |-> "parameters"]
    /\ steps' = steps + 1
    /\ UNCHANGED <<debug, calcs, files>>

\* The client adds, in place, a dataset to the collection o.input or o.output.
MutateCollection(o, field) ==
    /\ Exists(o)
    /\ steps < MaxSteps
    /\ IsDataCollection(heap, Get(calcs[o], field))
    /\ heap' = [heap EXCEPT ![Get(calcs[o], field).id].items =
                    Append(@, DataV("TypeA", StrV("extra")))]
    /\ err' = "none"
    /\ last' = [op |-> "mutate", target |-> o, field |-> field]
    /\ steps' = steps + 1
    /\ UNCHANGED <<debug, calcs, files>>

\* Before any construction.
InitCtor ==
    /\ debug \in BOOLEAN
    /\ calcs = [o \in {"c", "c2"} |-> NoCalc]
    /\ heap = <<>>
    /\ files = InitFiles
    /\ err = "none"
    /\ last = [op |-> "none"]
    /\ steps = 0

\* One constructor call.
NextCtor == \E a \in CtorArgs : last.op = "none" /\ Construct("c", a)

SpecCtor == InitCtor /\ [][NextCtor]_vars

----------------------------------------------------------------------------
\* The lifecycle of a constructed calculator: derivation, the setters of input
\* and parameters, changes in place, the hooks.

\* The constructor calls the lifecycle specifications start from.
LifeArgs ==
    [name : {StrV("calc1")}, input : {ListV(<<DatasetA>>)},
     output_keys : {ListV(<<StrV("out1"), StrV("out2")>>), ListV(<<>>)},
     output_data_types : {ListV(<<ClassV("TypeX"), ClassV("TypeY")>>), ListV(<<>>)},
     output_filenames : {NoneV},
     instrument_base_dir : InstrumentDirArgs,
     calculator_base_dir : {DataV("TypeX", StrV("dir"))},
     parameters : {NoneV},
     dumpfile : {NoneV}]

\* The state after c = Calculator(**a) returned, for some a of the pool.
Constructed(pool) ==
    \E dbg \in BOOLEAN, a \in pool :
        LET pre == Resolve(<<>>, a.parameters)
            r == construct(pre.heap, dbg, [a EXCEPT !.parameters = pre.val])
        IN  /\ r.err = "none"
            /\ debug = dbg
            /\ calcs = [o \in {"c", "c2"} |-> IF o = "c" THEN r.obj ELSE NoCalc]
            /\ heap = r.heap
            /\ files = InitFiles
            /\ err = "none"
            /\ last = [op |-> "construct", target |-> "c"]
            /\ steps = 0

Calcs == {"c", "c2"}
Other(o) == IF o = "c" THEN "c2" ELSE "c"

\* What the accessor of field returns on calculator o, when that is an object
\* with identity.
Held(o, field) ==
    IF Exists(o) /\ Get(calcs[o], field).t = "ref" THEN {Get(calcs[o], field)} ELSE {}

\* The values the client passes: new objects, values of a wrong type, and the
\* objects the calculators at hand already hold.
ParametersPool(o) == {NoneV, NewParams, IntV(5)} \cup Held(o, "parameters")
InputPool(o) == {DatasetA, NewColl, IntV(7)} \cup Held(o, "input")
Overrides ==
    {NoOverride}
    \cup [key : {"name", "_BaseCalculator__name"}, val : {StrV("other")}]
    \cup [key : {"parameters", "_BaseCalculator__parameters"},
          val : {StrV("other")} \cup Held("c", "parameters")]
    \cup [key : {"_BaseCalculator__input"}, val : Held("c", "input")]

Init == Constructed(LifeArgs)

Next ==
    \/ \E p \in ParametersPool("c") : \E ov \in Overrides : Derive(p, ov)
    \/ \E o \in Calcs : MutateParameters(o)
    \/ \E o \in Calcs, f \in {"input", "output"} : MutateCollection(o, f)
    \/ \E o \in Calcs : \E v \in ParametersPool(Other(o)) : SetParameters(o, v)
    \/ \E o \in Calcs : \E v \in InputPool(Other(o)) : SetInput(o, v)
    \/ \E o \in Calcs : InitParameters(o)
    \/ \E o \in Calcs : Backengine(o)

Spec == Init /\ [][Next]_vars

----------------------------------------------------------------------------
\* Persistence: dump and __load_from_dump.

\* dump(fname): with no fname, mkstemp creates a file of a name not in use.
Dump(o, fname) ==
    /\ Exists(o)
    /\ steps < MaxSteps
    /\ \E p \in Paths :
           /\ IF IsNone(fname) THEN p \in TmpPaths /\ files[p] = Missing
              ELSE p = fname.s
           /\ files' = [files EXCEPT ![p] =
                           [kind |-> "dump", blob |-> dill_dump(calcs[o], heap)]]
           /\ last' = [op |-> "dump", target |-> o, fname |-> fname, path |-> p]
    /\ err' = "none"
    /\ steps' = steps + 1
    /\ UNCHANGED <<debug, calcs, heap>>

\* __load_from_dump(dumpfile), a classmethod: self is the class.  open() raises
\* FileNotFoundError (an OSError, which IOError names) for a missing file; a
\* failure of dill.load is raised again as IOError; after a successful
\* dill.load, the assignment to self.__dict__ raises AttributeError, the
\* __dict__ of a class not being writable.
load_from_dump(m, file) ==
    IF file.kind = "missing" THEN Raise(m, "FileNotFoundError")
    ELSE IF file.kind = "garbage" THEN Raise(m, "IOError")
    ELSE Raise(m, "AttributeError")

\* o._BaseCalculator__load_from_dump(path)
Load(o, path) ==
    /\ Exists(o)
    /\ steps < MaxSteps
    /\ \E r \in {load_from_dump(Machine(o, heap), files[path])} :
           /\ calcs' = [calcs EXCEPT ![o] = r.obj]
           /\ heap' = r.heap
           /\ err' = r.err
           /\ last' = [op |-> "load", target |-> o, path |-> path]
    /\ steps' = steps + 1
    /\ UNCHANGED <<debug, files>>

\* The constructor calls that name a dumpfile.
RestoreArgs ==
    [name : {StrV("calc1")}, input : {ListV(<<DatasetA>>)},
     output_keys : {ListV(<<StrV("out1"), StrV("out2")>>), ListV(<<>>)},
     output_data_types : {ListV(<<ClassV("TypeX"), ClassV("TypeY")>>), ListV(<<>>)},
     output_filenames : {NoneV},
     instrument_base_dir : InstrumentDirArgs,
     calculator_base_dir : CalculatorDirArgs,
     parameters : {NoneV},
     dumpfile : {StrV(p) : p \in Paths}]

InitPersist == Constructed(LifeArgs)

NextPersist ==
    \/ \E o \in Calcs, f \in {NoneV, StrV("calc.dill")} : Dump(o, f)
    \/ \E o \in Calcs, p \in Paths : Load(o, p)
    \/ \E a \in RestoreArgs : Construct("c2", a)
    \/ \E o \in Calcs, v \in {StrV("calc2")} : SetName(o, v)
    \/ \E o \in Calcs : MutateParameters(o)

SpecPersist == InitPersist /\ [][NextPersist]_vars

----------------------------------------------------------------------------
\* The setters, called on a constructed calculator.

InitSet == Constructed(CtorArgs)

NextSet ==
    \/ \E v \in {StrV("calc2"), IntV(123)} : SetName("c", v)
    \/ \E v \in {DatasetA, ListV(<<DatasetA>>), NewColl, IntV(7)} : SetInput("c", v)
    \/ \E v \in KeysArgs \cup {IntV(3)} : SetOutputKeys("c", v)
    \/ \E v \in TypesArgs \cup {IntV(3)} : SetOutputDataTypes("c", v)
    \/ \E v \in FilenamesArgs \cup {IntV(3)} : SetOutputFilenames("c", v)
    \/ \E v \in {StrV("./"), StrV("instrument"), IntV(3)} : SetInstrumentBaseDir("c", v)
    \/ \E v \in CalculatorDirArgs \cup {IntV(3)} : SetCalculatorBaseDir("c", v)
    \/ \E v \in ParametersArgs : SetParameters("c", v)

SpecSet == InitSet /\ [][NextSet]_vars

----------------------------------------------------------------------------
\* Properties of the derivation operator and of the hooks (specification Spec).

\* What a client observes of calculator o: its attributes, with the contents
\* of the objects they refer to.
View(o) == dill_dump(calcs[o], heap)

\* A value with the content of the object it refers to.
Deref(v) == IF v.t = "ref" THEN heap[v.id] ELSE v

Disjoint == Reach(calcs["c"]) \cap Reach(calcs["c2"]) = {}

\* The arguments of the last derivation hand no object of c to the clone.
NoAlias(l) ==
    /\ ~(l.parameters.t = "ref" /\ l.parameters.id \in Reach(calcs["c"]))
    /\ ~(l.ov.val.t = "ref" /\ l.ov.val.id \in Reach(calcs["c"]))

MutationOps == {"mutate", "set_input", "set_parameters"}

\* C3, as stated: a derivation c2 = c(parameters, **overrides) leaves c
\* unchanged, and afterwards no change of c2's input, output or parameters
\* (by a setter or in place) changes what c shows, nor the other way round.
C3_Original ==
    [][/\ (last'.op = "call" => calcs'["c"] = calcs["c"] /\ View("c")' = View("c"))
       /\ \A o \in Calcs :
              last'.op \in MutationOps /\ last'.target = Other(o)
              /\ Exists("c") /\ Exists("c2")
                  => View(o)' = View(o)]_vars

\* C3, amended: a derivation leaves c and every object c reaches unchanged;
\* when neither the replacement parameter set nor an override value is an
\* object of c, the clone shares no object with c; and as long as the two
\* share no object, a change of either's input, output or parameters (by a
\* setter or in place) leaves what the other shows unchanged.
C3_Independence ==
    [][/\ (last'.op = "call" =>
              /\ calcs'["c"] = calcs["c"]
              /\ \A i \in Reach(calcs["c"]) : heap'[i] = heap[i])
       /\ (last'.op = "call" /\ err' = "none" /\ NoAlias(last') => Disjoint')
       /\ \A o \in Calcs :
              last'.op \in MutationOps /\ last'.target = Other(o)
              /\ Exists("c") /\ Exists("c2") /\ Disjoint
                  => View(o)' = View(o)]_vars

\* A clone that shares nothing with c has had its parameters changed in place,
\* and c's are as they were.
C3_Witness ==
    /\ Exists("c") /\ Exists("c2") /\ Disjoint
    /\ last.op = "mutate" /\ last.target = "c2" /\ last.field = "parameters"
    /\ IsCalculatorParameters(heap, calcs["c"].parameters)
    /\ heap[calcs["c"].parameters.id].plus_times = 1
    /\ heap[calcs["c2"].parameters.id].plus_times = 2

\* The attribute an override key names.
FieldOf(key) == IF key \in MangledKeys THEN AttrOf(key) ELSE key

\* C9: c(parameters=p2, **overrides) fails with TypeError when p2 is neither
\* absent nor a parameter set; otherwise it returns a clone whose accessors show
\* the override value for the field named in overrides, p2 for parameters when
\* p2 is supplied, and for every other field what c shows.
C9_DerivationResult ==
    last.op = "call" =>
        IF ~IsNone(last.parameters) /\ ~IsCalculatorParameters(heap, last.parameters)
        THEN err = "TypeError"
        ELSE /\ err = "none"
             /\ \A f \in PrivateNames \cup {"output"} :
                    Get(calcs["c2"], f) =
                        IF f = "parameters" /\ ~IsNone(last.parameters)
                            THEN last.parameters
                        ELSE IF last.ov.key # "none" /\ FieldOf(last.ov.key) = f
                            THEN last.ov.val
                        ELSE Get(calcs["c2"], f)
             /\ \A f \in PrivateNames \cup {"output"} :
                    (~(f = "parameters" /\ ~IsNone(last.parameters))
                     /\ ~(last.ov.key # "none" /\ FieldOf(last.ov.key) = f))
                        => Deref(Get(calcs["c2"], f)) = Deref(Get(calcs["c"], f))

----------------------------------------------------------------------------
\* Properties of the constructor (specification SpecCtor).

IsClass(v) == v.t = "class"
IsStrOrNone(v) == IsStr(v) \/ IsNone(v)
AllStr(v) == \A i \in 1..Len(v.l) : IsStr(v.l[i])
AllClass(v) == \A i \in 1..Len(v.l) : IsClass(v.l[i])
AllData(v) == \A i \in 1..Len(v.l) : IsBaseData(v.l[i])
AllStrOrNone(v) == \A i \in 1..Len(v.l) : IsStrOrNone(v.l[i])

\* A constructor call the specification calls valid, every optional argument
\* at its default.
ValidConstruction(a) ==
    /\ IsStr(a.name)
    /\ IsList(a.input) /\ AllData(a.input)
    /\ IsList(a.output_keys) /\ AllStr(a.output_keys)
    /\ IsList(a.output_data_types) /\ AllClass(a.output_data_types)
    /\ Len(a.output_keys.l) = Len(a.output_data_types.l)
    /\ a.output_filenames = DefaultArgs.output_filenames
    /\ a.instrument_base_dir = DefaultArgs.instrument_base_dir
    /\ a.calculator_base_dir = DefaultArgs.calculator_base_dir
    /\ a.parameters = DefaultArgs.parameters
    /\ a.dumpfile = DefaultArgs.dumpfile

\* C1: a valid constructor call with the other arguments at their defaults
\* returns normally, and the output collection holds, in the order of
\* output_keys, one dataset per key, keyed by it and of the type declared at
\* the same index of output_data_types.
C1_ValidConstruction ==
    last.op = "construct" /\ ValidConstruction(last.args) =>
        /\ err = "none"
        /\ Exists("c")
        /\ LET out == heap[calcs["c"].output.id].items
               keys == last.args.output_keys.l
               types == last.args.output_data_types.l
           IN  /\ Len(out) = Len(keys)
               /\ \A i \in 1..Len(keys) : out[i] = DataV(types[i].c, keys[i])

\* C2: every calculator that exists has as many output_data_types and as many
\* output_filenames as output_keys.
C2_LengthInvariant ==
    \A o \in Calcs : Exists(o) =>
        /\ Len(calcs[o].output_data_types.l) = Len(calcs[o].output_keys.l)
        /\ Len(calcs[o].output_filenames.l) = Len(calcs[o].output_keys.l)

----------------------------------------------------------------------------
\* Properties of the setters (specification SpecSet).

SetterOps == {"set_name", "set_input", "set_output_keys", "set_output_data_types",
              "set_output_filenames", "set_instrument_base_dir",
              "set_calculator_base_dir", "set_parameters"}

\* The contract of each field, as the specification states it.
Accepts(op, v) ==
    CASE op = "set_name" -> IsStr(v)
      [] op = "set_input" ->
            \/ IsDataCollection(heap, v)
            \/ IsBaseData(v)
            \/ IsList(v) /\ AllData(v)
      [] op = "set_output_keys" -> IsStr(v) \/ (IsList(v) /\ AllStr(v))
      [] op = "set_output_data_types" ->
            IsClass(v) \/ (IsList(v) /\ AllClass(v))
      [] op = "set_output_filenames" ->
            IsStrOrNone(v) \/ (IsList(v) /\ AllStrOrNone(v))
      [] op = "set_instrument_base_dir" -> IsStr(v)
      [] op = "set_calculator_base_dir" -> IsStr(v)
      [] op = "set_parameters" -> IsCalculatorParameters(heap, v) \/ IsNone(v)

\* C6: a setter called with a value that does not match the contract of its
\* field fails with TypeError.
C6_TypeRejection ==
    last.op \in SetterOps /\ ~Accepts(last.op, last.value) => err = "TypeError"

\* The private attribute a setter assigns.
FieldSet(op) ==
    CASE op = "set_output_keys" -> "output_keys"
      [] op = "set_output_data_types" -> "output_data_types"
      [] op = "set_output_filenames" -> "output_filenames"
      [] op = "set_instrument_base_dir" -> "instrument_base_dir"
      [] op = "set_calculator_base_dir" -> "calculator_base_dir"

\* C7: a sequence-typed field given a scalar of its element type (a string for
\* output_keys, a dataset type for output_data_types, a string or None for
\* output_filenames) holds the one-element sequence of that scalar, and given
\* a sequence whose elements all pass the element check holds that sequence.
C7_ScalarNormalization ==
    last.op \in {"set_output_keys", "set_output_data_types", "set_output_filenames"}
    /\ Accepts(last.op, last.value) =>
        /\ err = "none"
        /\ Get(calcs[last.target], FieldSet(last.op)) =
               IF IsList(last.value) THEN last.value ELSE ListV(<<last.value>>)

\* C8: setting instrument_base_dir or calculator_base_dir to a string succeeds
\* and the field then holds that string; setting either to a value that is no
\* string fails with TypeError.
C8_PathFragments ==
    last.op \in {"set_instrument_base_dir", "set_calculator_base_dir"} =>
        IF IsStr(last.value)
        THEN err = "none" /\ Get(calcs[last.target], FieldSet(last.op)) = last.value
        ELSE err = "TypeError"

----------------------------------------------------------------------------
\* Properties of the persistence operations (specification SpecPersist).

IOErrors == {"IOError", "FileNotFoundError"}

\* C4: restoring calculator o from a path either replaces the whole state of o
\* by a copy of the snapshot's, or, the file being missing or not a snapshot,
\* raises an IOError and leaves o as it was.
C4_RestoreAllOrNothing ==
    [][\A o \in Calcs : last'.op = "load" /\ last'.target = o =>
          IF files[last'.path].kind = "dump"
          THEN err' = "none" /\ View(o)' = files[last'.path].blob
          ELSE err' \in IOErrors /\ calcs' = calcs /\ heap' = heap]_vars

\* What the round trip is to preserve of a dumped calculator.
Observable(blob) ==
    LET D(v) == IF v.t = "ref" THEN blob.objs[v.id] ELSE v
    IN  [name |-> blob.obj.name, output_keys |-> blob.obj.output_keys,
         output_data_types |-> blob.obj.output_data_types,
         output_filenames |-> blob.obj.output_filenames,
         parameters |-> D(blob.obj.parameters), output |-> D(blob.obj.output)]

\* C5: a calculator constructed with the path of a dump as dumpfile shows the
\* name, output_keys, output_data_types, output_filenames, parameters and
\* output of the dumped calculator.
C5_RoundTrip ==
    (/\ last.op = "construct" /\ last.target = "c2"
     /\ IsStr(last.args.dumpfile)
     /\ files[last.args.dumpfile.s].kind = "dump") =>
        /\ err = "none"
        /\ Observable(View("c2")) = Observable(files[last.args.dumpfile.s].blob)

====
